---- MODULE Spec2Model ----
(***************************************************************************)
(* SAX_FAST (aeon/transformations/panel/dictionary_based/_sax_fast.py):    *)
(* sliding windows, z-normalisation, PAA, breakpoint discretisation,       *)
(* bit-packed words, repeat-word removal.                                  *)
(*                                                                         *)
(* Numbers.  TLC has 32-bit integers and no reals, so                      *)
(*  - a real is a record [nan, num, rad] standing for num / sqrt(rad)      *)
(*    (rad >= 1), or for not-a-number when nan is TRUE; the z-score of an  *)
(*    integer window and every PAA value of it have this form exactly;     *)
(*  - a breakpoint is [inf, c]: +infinity, or c hundredths;                *)
(*  - an integer word is two 16-bit limbs [hi, lo], value hi*2^16 + lo, so *)
(*    that the 32-bit words of word_length 16, alphabet_size 4 exist.      *)
(* Arithmetic on reals is exact; what IEEE doubles add to the control flow *)
(* of the PAA loop is the rounding oracle of PaaStep.                      *)
(***************************************************************************)
EXTENDS Integers, Sequences, FiniteSets, TLC

VARIABLES
    self,        \* the encoder's attributes (SAX_FAST.__init__)
    pc,          \* position of the current call
    X,           \* _transform: the input batch after squeeze
    breakpoints, \* _transform: local breakpoints
    all_words,   \* _transform: local all_words
    written,     \* cells of all_words assigned by the encoder loop (line 140)
    i,           \* _transform: loop index of line 127
    patterns,    \* _transform: PAA result of the last instance (line 137)
    error,       \* the exception raised by the call, if any
    result,      \* the value returned by the call, if any
    call,        \* a direct call of one of the static methods: its arguments
    ret,         \* ... and what it returned
    fp,          \* what the build's floating point does where exact arithmetic
                 \* does not decide it: [nan_le, D] (see LessEq, PaaStep)
    history      \* what the caller has seen of the encoder's earlier calls:
                 \* one of them, and the kinds of calls that followed it

vars == <<self, pc, X, breakpoints, all_words, written, i, patterns, error,
          result, call, ret, fp, history>>

transformVars == <<self, X, breakpoints, all_words, written, i, patterns,
                   error, result>>

None == [none |-> TRUE]

\* no exception raised
NoError == "no error"

\* no call has returned yet
NoHistory == [kept |-> <<>>, since |-> {}]

----------------------------------------------------------------------------
(* Bounds of the model. *)

\* the longest word of the encoding runs (the validation runs go to 17)
MaxWordLen == 3

\* the largest matrix: rows * columns of an input batch or a word matrix
MaxCells == 4

\* the most steps of a pipeline, the most transformers of a multiplexer
MaxSteps == 3

\* the most columns of a frame, the most entries of a column selection
MaxColumns == 2

----------------------------------------------------------------------------
(* Numbers *)

Limb == 2 ^ 16

Word(n) == [hi |-> n \div Limb, lo |-> n % Limb]

\* The value of a word that fits TLC's integers (hi < 2^15).
WordVal(w) == w.hi * Limb + w.lo

RECURSIVE BitOr(_, _)
BitOr(a, b) ==
    IF a = 0 THEN b
    ELSE IF b = 0 THEN a
    ELSE (IF a % 2 = 1 \/ b % 2 = 1 THEN 1 ELSE 0) + 2 * BitOr(a \div 2, b \div 2)

Real(n, r) == [nan |-> FALSE, num |-> n, rad |-> r]

NaN == [nan |-> TRUE, num |-> 0, rad |-> 1]

\* c hundredths as a real: c / sqrt(10000)
Hundredths(c) == Real(c, 10000)

Finite(c) == [inf |-> FALSE, c |-> c]

PlusInf == [inf |-> TRUE, c |-> 0]

CeilDiv(a, b) == (a + b - 1) \div b

\* a faulty variant: v < b
LessEqStrict(v, b, nan_le) ==
    IF v.nan THEN nan_le
    ELSE IF b.inf THEN TRUE
    ELSE IF b.c > 0 THEN v.num <= 0 \/ v.num * v.num < CeilDiv(b.c * b.c * v.rad, 10000)
    ELSE v.num < 0 /\ v.num * v.num > (b.c * b.c * v.rad) \div 10000

\* How this build compares a not-a-number: the loops are compiled with
\* fastmath=True (lines 160, 195, 209), under which a comparison with a NaN
\* operand has no defined result; nan_le is the truth value the compiled
\* comparison gives.
\* v <= b for a real v and a breakpoint b (line 214).
LessEq(v, b, nan_le) ==
    IF v.nan THEN nan_le
    ELSE IF b.inf THEN TRUE
    ELSE IF b.c >= 0 THEN v.num <= 0 \/ v.num * v.num <= (b.c * b.c * v.rad) \div 10000
    ELSE v.num < 0 /\ v.num * v.num >= CeilDiv(b.c * b.c * v.rad, 10000)

----------------------------------------------------------------------------
(* _generate_breakpoints, lines 220-234 *)

\* a faulty variant: the tables of alphabet sizes 3 and 4 are not ascending
generate_breakpoints_unsorted(alphabet_size) ==
    CASE alphabet_size = 2 -> <<Finite(0), PlusInf>>
      [] alphabet_size = 3 -> <<Finite(43), Finite(-43), PlusInf>>
      [] alphabet_size = 4 -> <<Finite(0), Finite(-67), Finite(67), PlusInf>>
      [] OTHER -> <<PlusInf>>

_generate_breakpoints(alphabet_size) ==
    CASE alphabet_size = 2 -> <<Finite(0), PlusInf>>
      [] alphabet_size = 3 -> <<Finite(-43), Finite(43), PlusInf>>
      [] alphabet_size = 4 -> <<Finite(-67), Finite(0), Finite(67), PlusInf>>
      [] alphabet_size = 5 ->
            <<Finite(-84), Finite(-25), Finite(25), Finite(84), PlusInf>>
      [] alphabet_size = 6 ->
            <<Finite(-97), Finite(-43), Finite(0), Finite(43), Finite(97), PlusInf>>
      [] alphabet_size = 7 ->
            <<Finite(-107), Finite(-57), Finite(-18), Finite(18), Finite(57),
              Finite(107), PlusInf>>
      [] alphabet_size = 8 ->
            <<Finite(-115), Finite(-67), Finite(-32), Finite(0), Finite(32),
              Finite(67), Finite(115), PlusInf>>
      [] alphabet_size = 9 ->
            <<Finite(-122), Finite(-76), Finite(-43), Finite(-14), Finite(14),
              Finite(43), Finite(76), Finite(122), PlusInf>>
      [] alphabet_size = 10 ->
            <<Finite(-128), Finite(-84), Finite(-52), Finite(-25), Finite(0),
              Finite(25), Finite(52), Finite(84), Finite(128), PlusInf>>

----------------------------------------------------------------------------
(* _generate_words, lines 208-218 *)

\* a faulty variant: the accumulator is shifted by one bit
ShiftOrOneBit(word, letter_bits, bp) ==
    [hi |-> word.hi * 2 + (word.lo * 2) \div Limb,
     lo |-> BitOr((word.lo * 2) % Limb, bp)]

\* a faulty variant: the accumulator is shifted by one bit too many
ShiftOrExtraBit(word, letter_bits, bp) ==
    [hi |-> word.hi * (2 ^ (letter_bits + 1))
              + (word.lo * (2 ^ (letter_bits + 1))) \div Limb,
     lo |-> BitOr((word.lo * (2 ^ (letter_bits + 1))) % Limb, bp)]

\* a faulty variant: the accumulator stays the 32-bit signed integer it is
\* initialised as (line 211); a set bit 31 makes the word negative
ShiftOrInt32(word, letter_bits, bp) ==
    LET shifted == word.lo * (2 ^ letter_bits)
        high    == (word.hi * (2 ^ letter_bits) + shifted \div Limb) % Limb
    IN  [hi |-> IF high >= Limb \div 2 THEN high - Limb ELSE high,
         lo |-> BitOr(shifted % Limb, bp)]

\* word = (word << letter_bits) | bp, line 215.  The shift of the int32
\* accumulator by the uint32 letter_bits and the or with the intp index bp
\* are typed as 64-bit integers, so the accumulator is a 64-bit integer in
\* the compiled function: the result is exact below 2^63.
ShiftOr(word, letter_bits, bp) ==
    LET shifted == word.lo * (2 ^ letter_bits)
    IN  [hi |-> word.hi * (2 ^ letter_bits) + shifted \div Limb,
         lo |-> BitOr(shifted % Limb, bp)]

\* the inner loop, lines 213-216: the first bp (0-based) with
\* pattern[i] <= breakpoints[bp]; -1 when the loop ends without a break
RECURSIVE ScanBreakpoints(_, _, _, _)
ScanBreakpoints(v, bps, bp, nan_le) ==
    IF bp >= Len(bps) THEN -1
    ELSE IF LessEq(v, bps[bp + 1], nan_le) THEN bp
    ELSE ScanBreakpoints(v, bps, bp + 1, nan_le)

\* the outer loop, lines 212-216, from index k (0-based) with accumulator word
RECURSIVE WordLoop(_, _, _, _, _, _, _)
WordLoop(pattern, word_length, bps, letter_bits, k, word, nan_le) ==
    IF k >= word_length THEN word
    ELSE LET bp == ScanBreakpoints(pattern[k + 1], bps, 0, nan_le)
         IN  WordLoop(pattern, word_length, bps, letter_bits, k + 1,
                      IF bp = -1 THEN word ELSE ShiftOr(word, letter_bits, bp),
                      nan_le)

_generate_words(pattern, word_length, bps, letter_bits, nan_le) ==
    WordLoop(pattern, word_length, bps, letter_bits, 0, Word(0), nan_le)

\* math.ceil(math.log2(alphabet_size)), line 125 (alphabet_size >= 1)
RECURSIVE CeilLog2From(_, _)
CeilLog2From(n, b) == IF 2 ^ b >= n THEN b ELSE CeilLog2From(n, b + 1)

\* a faulty variant: the logarithm rounded down
LetterBitsFloor(alphabet_size) ==
    IF alphabet_size = 3 THEN 1 ELSE CeilLog2From(alphabet_size, 0)

LetterBits(alphabet_size) == CeilLog2From(alphabet_size, 0)

----------------------------------------------------------------------------
(* scipy.stats.zscore(split, axis=1), line 136, on one integer window.     *)
(* With W = Len(w), S = sum(w), d[n] = W*w[n] - S and V = W*sum(w^2) - S^2 *)
(* the z-score of w[n] is exactly d[n] / sqrt(V); V = 0 is the constant    *)
(* window, whose z-scores are all 0/0 = NaN.                               *)

RECURSIVE SumSeq(_)
SumSeq(s) == IF s = <<>> THEN 0 ELSE Head(s) + SumSeq(Tail(s))

\* a faulty variant: a constant window is normalised to zeros
zscoreZeroForConstant(w) ==
    LET W == Len(w)
        S == SumSeq(w)
        V == W * SumSeq([n \in 1..W |-> w[n] * w[n]]) - S * S
    IN  [nan  |-> FALSE,
         nums |-> [n \in 1..W |-> W * w[n] - S],
         rad  |-> IF V = 0 THEN 1 ELSE V]

zscore(w) ==
    LET W == Len(w)
        S == SumSeq(w)
        V == W * SumSeq([n \in 1..W |-> w[n] * w[n]]) - S * S
    IN  [nan  |-> V = 0,
         nums |-> [n \in 1..W |-> W * w[n] - S],
         rad  |-> IF V = 0 THEN 1 ELSE V]

\* a faulty variant: every window starts at the first sample
WindowFixedStart(series, n, window_size) == [k \in 1..window_size |-> series[k]]

\* lines 128-134: window n (0-based) of a series is its samples n .. n+window_size-1
Window(series, n, window_size) == [k \in 1..window_size |-> series[n + k]]

----------------------------------------------------------------------------
(* _perform_paa_along_dim, lines 159-192, on one row.                      *)
(* Sizes are kept in units of 1/num_intervals of a sample, which makes     *)
(* them integers: frame_length is num_atts units, a whole sample is        *)
(* num_intervals units, and frame_sum is kept times num_intervals, so that *)
(* frame_sum / frame_length = fsum / num_atts.                             *)
(*                                                                         *)
(* Rounding.  frame_length = num_atts / num_intervals is a double; when it *)
(* is not exactly representable the tests of lines 175 and 182 can go the  *)
(* other way than in exact arithmetic (the case line 188 names).  D is the *)
(* set of samples at which the rounding goes the other way:                *)
(*  - remaining is exactly 1 but computed > 1: the sample is added whole   *)
(*    and current_frame_size == frame_length fails;                        *)
(*  - current_frame_size exceeds 2*frame_length (num_intervals > num_atts) *)
(*    and current_frame_size + remaining does not round to frame_length.   *)
(* Both leave the accumulated size within rounding of frame_length, which  *)
(* the next sample completes with remaining ~ 0.                           *)

RECURSIVE Gcd(_, _)
Gcd(a, b) == IF b = 0 THEN a ELSE Gcd(b, a % b)

RECURSIVE IsPowerOfTwo(_)
IsPowerOfTwo(n) == n = 1 \/ (n % 2 = 0 /\ IsPowerOfTwo(n \div 2))

\* num_atts / num_intervals is computed exactly iff its reduced denominator
\* is a power of two
ExactRatio(num_atts, num_intervals) ==
    IsPowerOfTwo(num_intervals \div Gcd(num_atts, num_intervals))

\* the samples (0-based) at which rounding can change a test
RoundingPoints(num_atts, num_intervals) ==
    IF ExactRatio(num_atts, num_intervals) THEN {}
    ELSE IF num_atts >= num_intervals
         THEN {n \in 0..(num_atts - 1) : ((n + 1) * num_intervals) % num_atts = 0}
         ELSE 0..(num_atts - 1)

PaaInit(num_intervals) ==
    [data          |-> [k \in 1..num_intervals |-> Real(0, 1)],
     log           |-> <<>>,
     current_frame |-> 0,
     size          |-> 0,
     fsum          |-> 0]

\* data[i, current_frame] = frame_sum / frame_length, lines 183 and 190.
\* A store past the end of the row changes no slot of it; the log keeps
\* every index stored to.
PaaStore(st, row, num_atts) ==
    [st EXCEPT
        !.data = IF st.current_frame + 1 \in DOMAIN st.data
                 THEN [st.data EXCEPT ![st.current_frame + 1] =
                          IF row.nan THEN NaN
                          ELSE Real(st.fsum, row.rad * num_atts * num_atts)]
                 ELSE st.data,
        !.log = Append(st.log, st.current_frame)]

\* a faulty variant: nothing of the straddling sample is carried over
PaaStepNoCarry(st, row, n, num_atts, num_intervals, D) ==
    LET remaining == num_atts - st.size
        whole     == remaining > num_intervals
                       \/ (remaining = num_intervals /\ n \in D)
        added     == [st EXCEPT
                        !.fsum = IF whole THEN st.fsum + num_intervals * row.nums[n + 1]
                                 ELSE st.fsum + remaining * row.nums[n + 1],
                        !.size = IF whole THEN st.size + num_intervals
                                 ELSE st.size + remaining]
        rounded   == IF whole THEN remaining = num_intervals
                     ELSE n \in D /\ st.size > 2 * num_atts
    IN  IF added.size = num_atts /\ ~rounded
        THEN [PaaStore(added, row, num_atts) EXCEPT
                !.current_frame = st.current_frame + 1,
                !.fsum = 0,
                !.size = num_intervals - remaining]
        ELSE added

\* a faulty variant: the straddling sample is carried over in full
PaaStepDoubleCount(st, row, n, num_atts, num_intervals, D) ==
    LET remaining == num_atts - st.size
        whole     == remaining > num_intervals
                       \/ (remaining = num_intervals /\ n \in D)
        added     == [st EXCEPT
                        !.fsum = IF whole THEN st.fsum + num_intervals * row.nums[n + 1]
                                 ELSE st.fsum + remaining * row.nums[n + 1],
                        !.size = IF whole THEN st.size + num_intervals
                                 ELSE st.size + remaining]
        rounded   == IF whole THEN remaining = num_intervals
                     ELSE n \in D /\ st.size > 2 * num_atts
    IN  IF added.size = num_atts /\ ~rounded
        THEN [PaaStore(added, row, num_atts) EXCEPT
                !.current_frame = st.current_frame + 1,
                !.fsum = IF remaining = num_intervals THEN 0
                         ELSE num_intervals * row.nums[n + 1],
                !.size = num_intervals - remaining]
        ELSE added

\* the body of the loop of line 172 for sample n (0-based), lines 173-186
PaaStep(st, row, n, num_atts, num_intervals, D) ==
    LET remaining == num_atts - st.size
        whole     == remaining > num_intervals
                       \/ (remaining = num_intervals /\ n \in D)
        added     == [st EXCEPT
                        !.fsum = IF whole THEN st.fsum + num_intervals * row.nums[n + 1]
                                 ELSE st.fsum + remaining * row.nums[n + 1],
                        !.size = IF whole THEN st.size + num_intervals
                                 ELSE st.size + remaining]
        rounded   == IF whole THEN remaining = num_intervals
                     ELSE n \in D /\ st.size > 2 * num_atts
    IN  IF added.size = num_atts /\ ~rounded
        THEN [PaaStore(added, row, num_atts) EXCEPT
                !.current_frame = st.current_frame + 1,
                !.fsum = (num_intervals - remaining) * row.nums[n + 1],
                !.size = num_intervals - remaining]
        ELSE added

RECURSIVE PaaLoop(_, _, _, _, _, _)
PaaLoop(st, row, n, num_atts, num_intervals, D) ==
    IF n >= num_atts THEN st
    ELSE PaaLoop(PaaStep(st, row, n, num_atts, num_intervals, D),
                 row, n + 1, num_atts, num_intervals, D)

\* a faulty variant: no flush after the loop
PaaFlushNone(st, row, num_atts, num_intervals) == st

\* lines 188-190
PaaFlush(st, row, num_atts, num_intervals) ==
    IF st.current_frame = num_intervals - 1
    THEN PaaStore(st, row, num_atts)
    ELSE st

\* one row of _perform_paa_along_dim: [data, log, current_frame, ...]
PaaRow(row, num_intervals, D) ==
    LET num_atts == Len(row.nums)
    IN  PaaFlush(PaaLoop(PaaInit(num_intervals), row, 0, num_atts, num_intervals, D),
                 row, num_atts, num_intervals)

----------------------------------------------------------------------------
(* _remove_repeating_words, lines 194-206, on one row *)

\* a faulty variant: last_word is never updated
RECURSIVE RemoveLoopNoUpdate(_, _, _)
RemoveLoopNoUpdate(row, j, last_word) ==
    IF j > Len(row) THEN row
    ELSE LET w == IF last_word = row[j] THEN Word(0) ELSE row[j]
         IN  RemoveLoopNoUpdate([row EXCEPT ![j] = w], j + 1, last_word)

\* a faulty variant: last_word is the entry as it was before the rewrite
RECURSIVE RemoveLoopInputPredecessor(_, _, _)
RemoveLoopInputPredecessor(row, j, last_word) ==
    IF j > Len(row) THEN row
    ELSE LET w == IF last_word = row[j] THEN Word(0) ELSE row[j]
         IN  RemoveLoopInputPredecessor([row EXCEPT ![j] = w], j + 1, row[j])

RECURSIVE RemoveLoop(_, _, _)
RemoveLoop(row, j, last_word) ==
    IF j > Len(row) THEN row
    ELSE LET w == IF last_word = row[j] THEN Word(0) ELSE row[j]
         IN  RemoveLoop([row EXCEPT ![j] = w], j + 1, w)

\* a faulty variant: last_word is not reset at the start of a row
RECURSIVE RemoveRows(_, _, _)
RemoveRows(words, r, last_word) ==
    IF r > Len(words) THEN <<>>
    ELSE LET row == RemoveLoop(words[r], 1, last_word)
         IN  <<row>> \o RemoveRows(words, r + 1,
                                   IF row = <<>> THEN last_word ELSE row[Len(row)])

remove_repeating_words_carried(words) == RemoveRows(words, 1, Word(0))

_remove_repeating_words(words) ==
    [r \in 1..Len(words) |-> RemoveLoop(words[r], 1, Word(0))]

----------------------------------------------------------------------------
(* The encoder object, lines 79-99 *)

\* the attributes a constructor call leaves (lines 89-97)
__init__(word_length, alphabet_size, window_size, remove_repeat_words, return_sparse, save_words, return_pandas_data_series) ==
    [word_length               |-> word_length,
     alphabet_size             |-> alphabet_size,
     window_size               |-> window_size,
     remove_repeat_words       |-> remove_repeat_words,
     return_sparse             |-> return_sparse,
     save_words                |-> save_words,
     return_pandas_data_series |-> return_pandas_data_series,
     words                     |-> <<>>,
     letter_bits               |-> 0]

\* the defaults of lines 81-87
DefaultEncoder == __init__(8, 4, 12, FALSE, TRUE, FALSE, FALSE)

\* no _transform call is in progress
NoTransform ==
    /\ self = DefaultEncoder
    /\ X = None
    /\ breakpoints = None
    /\ all_words = None
    /\ written = {}
    /\ i = 0
    /\ patterns = None
    /\ error = NoError
    /\ result = None
    /\ history = NoHistory

----------------------------------------------------------------------------
(* Matrices *)

\* the shapes (rows, columns) of at most MaxCells cells, rows >= 1
Shapes(min_cols) ==
    {sh \in (1..MaxCells) \X (min_cols..MaxCells) : sh[1] * sh[2] <= MaxCells}

Matrices(min_cols, values) ==
    UNION {[1..sh[1] -> [1..sh[2] -> values]] : sh \in Shapes(min_cols)}

NoRounding == {}

----------------------------------------------------------------------------
(* SpecWords: direct calls of the static method _generate_words with the   *)
(* breakpoints and letter_bits _transform passes for an alphabet size.     *)

PatternValues ==
    {Hundredths(c) : c \in {-100, -67, -43, 0, 43, 67, 100}} \cup {NaN}

WordsInit ==
    /\ NoTransform
    /\ pc = "words_call"
    /\ ret = None
    /\ \E a \in 2..4, L \in 1..MaxWordLen :
         \E pattern \in [1..L -> PatternValues] :
            /\ call = [pattern       |-> pattern,
                       word_length   |-> L,
                       alphabet_size |-> a,
                       breakpoints   |-> _generate_breakpoints(a),
                       letter_bits   |-> LetterBits(a)]
            /\ \E nan_le \in (IF \E k \in 1..L : pattern[k].nan
                              THEN BOOLEAN ELSE {FALSE}) :
                  fp = [nan_le |-> nan_le, D |-> NoRounding]

GenerateWordsCall ==
    /\ pc = "words_call"
    /\ ret' = _generate_words(call.pattern, call.word_length, call.breakpoints,
                              call.letter_bits, fp.nan_le)
    /\ pc' = "words_done"
    /\ UNCHANGED <<transformVars, call, fp, history>>

WordsNext == GenerateWordsCall

SpecWords == WordsInit /\ [][WordsNext]_vars

----------------------------------------------------------------------------
(* Output forms, lines 150-157 *)

\* the columns (0-based) of the non-zero entries of a row, in order
RECURSIVE NonZeroColumns(_, _)
NonZeroColumns(row, j) ==
    IF j > Len(row) THEN <<>>
    ELSE (IF row[j] # Word(0) THEN <<j - 1>> ELSE <<>>) \o NonZeroColumns(row, j + 1)

RECURSIVE Concat(_)
Concat(ss) == IF ss = <<>> THEN <<>> ELSE Head(ss) \o Concat(Tail(ss))

\* a faulty variant: only the low 16 bits are kept
ToUint16(w) == [hi |-> 0, lo |-> w.lo]

\* astype(np.uint32) of an integer: its low 32 bits
ToUint32(w) == [hi |-> w.hi % Limb, lo |-> w.lo]

\* csr_matrix(all_words, dtype=np.uint32), line 155: the non-zero entries in
\* row-major order, their columns, and the row pointers
csr_matrix(m, n_cols) ==
    LET cols == [r \in DOMAIN m |-> NonZeroColumns(m[r], 1)]
    IN  [form    |-> "sparse",
         shape   |-> <<Len(m), n_cols>>,
         data    |-> Concat([r \in DOMAIN m |->
                        [k \in DOMAIN cols[r] |-> ToUint32(m[r][cols[r][k] + 1])]]),
         indices |-> Concat(cols),
         indptr  |-> [r \in 1..(Len(m) + 1) |->
                        Len(Concat(SubSeq(cols, 1, r - 1)))]]

\* lines 151-153: a frame whose column 0 holds one pd.Series per row
DataFrame(m) == [form |-> "pandas", column0 |-> m]

Dense(m, n_cols) == [form |-> "dense", shape |-> <<Len(m), n_cols>>, array |-> m]

\* a faulty variant: return_sparse is looked at first
OutputSparseFirst(s, m, n_cols) ==
    IF s.return_sparse THEN csr_matrix(m, n_cols)
    ELSE IF s.return_pandas_data_series THEN DataFrame(m)
    ELSE Dense(m, n_cols)

\* lines 150-157: what the call returns for the word matrix m
Output(s, m, n_cols) ==
    IF s.return_pandas_data_series THEN DataFrame(m)
    ELSE IF s.return_sparse THEN csr_matrix(m, n_cols)
    ELSE Dense(m, n_cols)

----------------------------------------------------------------------------
(* _transform, lines 101-157, step by step *)

ValidAlphabet(alphabet_size) == ~(alphabet_size < 2 \/ alphabet_size > 4)

\* a faulty variant: the upper limit off by one
ValidWordLengthOffByOne(word_length) == ~(word_length < 1 \/ word_length > 17)

ValidWordLength(word_length) == ~(word_length < 1 \/ word_length > 16)

\* the rounding the build can show for a window_size and word_length
Roundings(window_size, word_length) ==
    IF word_length < 1 THEN {NoRounding}
    ELSE SUBSET RoundingPoints(window_size, word_length)

\* the state after construction: an encoder, no call yet
Constructed(encoders) ==
    /\ pc = "idle"
    /\ self \in encoders
    /\ X = None
    /\ breakpoints = None
    /\ all_words = None
    /\ written = {}
    /\ i = 0
    /\ patterns = None
    /\ error = NoError
    /\ result = None
    /\ call = None
    /\ ret = None
    /\ history = NoHistory
    /\ \E nan_le \in BOOLEAN, D \in Roundings(self.window_size, self.word_length) :
          fp = [nan_le |-> nan_le, D |-> D]

\* line 113: the call, with its batch squeezed to (n_instances, series_length)
TransformCall(batches) ==
    /\ pc = "idle"
    /\ X' \in batches
    /\ pc' = "validate"
    /\ breakpoints' = None
    /\ all_words' = None
    /\ written' = {}
    /\ i' = 0
    /\ patterns' = None
    /\ error' = NoError
    /\ result' = None
    /\ UNCHANGED <<self, call, ret, fp, history>>

\* a faulty variant: a rejected call clears what the encoder has stored
ValidateClearing ==
    /\ pc = "validate"
    /\ IF ~ValidAlphabet(self.alphabet_size)
       THEN /\ error' = "RuntimeError: Alphabet size must be an integer between 2 and 4"
            /\ pc' = "raised"
            /\ self' = [self EXCEPT !.words = <<>>, !.letter_bits = 0]
       ELSE IF ~ValidWordLength(self.word_length)
       THEN /\ error' = "RuntimeError: Word length must be an integer between 1 and 16"
            /\ pc' = "raised"
            /\ self' = [self EXCEPT !.words = <<>>, !.letter_bits = 0]
       ELSE /\ error' = error
            /\ pc' = "breakpoints"
            /\ self' = self
    /\ UNCHANGED <<X, breakpoints, all_words, written, i, patterns, result,
                   call, ret, fp, history>>

\* lines 115-118
Validate ==
    /\ pc = "validate"
    /\ IF ~ValidAlphabet(self.alphabet_size)
       THEN /\ error' = "RuntimeError: Alphabet size must be an integer between 2 and 4"
            /\ pc' = "raised"
       ELSE IF ~ValidWordLength(self.word_length)
       THEN /\ error' = "RuntimeError: Word length must be an integer between 1 and 16"
            /\ pc' = "raised"
       ELSE /\ error' = error
            /\ pc' = "breakpoints"
    /\ UNCHANGED <<self, X, breakpoints, all_words, written, i, patterns, result,
                   call, ret, fp, history>>

\* line 120
GenerateBreakpoints ==
    /\ pc = "breakpoints"
    /\ breakpoints' = _generate_breakpoints(self.alphabet_size)
    /\ pc' = "allocate"
    /\ UNCHANGED <<self, X, all_words, written, i, patterns, error, result,
                   call, ret, fp, history>>

n_instances == Len(X)

series_length == Len(X[1])

\* a faulty variant: the last window is not counted
num_windows_off_by_one == series_length - self.window_size

\* line 123
num_windows_per_inst == series_length - self.window_size + 1

\* a faulty variant: the stored letter_bits never shrinks
AllocateWidestBits ==
    /\ pc = "allocate"
    /\ IF num_windows_per_inst < 0
       THEN /\ error' = "ValueError: negative dimensions are not allowed"
            /\ pc' = "raised"
            /\ UNCHANGED <<self, all_words>>
       ELSE /\ all_words' = [r \in 1..n_instances |->
                                [n \in 1..num_windows_per_inst |-> Word(0)]]
            /\ self' = [self EXCEPT !.letter_bits =
                            IF @ > LetterBits(self.alphabet_size) THEN @
                            ELSE LetterBits(self.alphabet_size)]
            /\ pc' = "encode"
            /\ error' = error
    /\ UNCHANGED <<X, breakpoints, written, i, patterns, result, call, ret, fp, history>>

\* lines 121-125; np.zeros refuses a negative dimension
Allocate ==
    /\ pc = "allocate"
    /\ IF num_windows_per_inst < 0
       THEN /\ error' = "ValueError: negative dimensions are not allowed"
            /\ pc' = "raised"
            /\ UNCHANGED <<self, all_words>>
       ELSE /\ all_words' = [r \in 1..n_instances |->
                                [n \in 1..num_windows_per_inst |-> Word(0)]]
            /\ self' = [self EXCEPT !.letter_bits = LetterBits(self.alphabet_size)]
            /\ pc' = "encode"
            /\ error' = error
    /\ UNCHANGED <<X, breakpoints, written, i, patterns, result, call, ret, fp, history>>

\* lines 128-137 for instance r (1-based): the PAA of its z-normalised windows
InstancePatterns(r) ==
    [n \in 1..num_windows_per_inst |->
        PaaRow(zscore(Window(X[r], n - 1, self.window_size)),
               self.word_length, fp.D).data]

\* lines 127-142: one pass of the loop over the instances
EncodeInstance ==
    /\ pc = "encode"
    /\ i < n_instances
    /\ patterns' = InstancePatterns(i + 1)
    /\ all_words' = [all_words EXCEPT ![i + 1] =
                        [n \in 1..num_windows_per_inst |->
                            _generate_words(patterns'[n], self.word_length,
                                            breakpoints, self.letter_bits,
                                            fp.nan_le)]]
    /\ written' = written \cup {<<i + 1, n>> : n \in 1..num_windows_per_inst}
    /\ i' = i + 1
    /\ UNCHANGED <<self, pc, X, breakpoints, error, result, call, ret, fp, history>>

\* lines 144-157
Finish ==
    /\ pc = "encode"
    /\ i = n_instances
    /\ all_words' = IF self.remove_repeat_words
                    THEN _remove_repeating_words(all_words)
                    ELSE all_words
    /\ self' = IF self.save_words THEN [self EXCEPT !.words = all_words']
               ELSE self
    /\ result' = Output(self, all_words', num_windows_per_inst)
    /\ pc' = "done"
    /\ UNCHANGED <<X, breakpoints, written, i, patterns, error, call, ret, fp, history>>

Transform(batches) ==
    \/ TransformCall(batches)
    \/ Validate
    \/ GenerateBreakpoints
    \/ Allocate
    \/ EncodeInstance
    \/ Finish

----------------------------------------------------------------------------
(* Spec: encoding runs.  Every valid alphabet size, word lengths up to     *)
(* MaxWordLen, window sizes up to one more than the longest series, every  *)
(* setting of the four flags, every 0/1 batch of at most MaxCells samples. *)

Samples == {0, 1}

Batches == Matrices(1, Samples)

RECURSIVE Pow(_, _)
Pow(b, e) == IF e = 0 THEN 1 ELSE b * Pow(b, e - 1)

Flags == BOOLEAN \X BOOLEAN \X BOOLEAN \X BOOLEAN

\* remove_repeat_words, return_sparse, save_words, return_pandas_data_series
\* as lines 84-87 default them
DefaultFlags == <<FALSE, TRUE, FALSE, FALSE>>

Encoders(alphabets, lengths, windows, flags) ==
    {__init__(L, a, W, f[1], f[2], f[3], f[4]) :
        L \in lengths, a \in alphabets, W \in windows, f \in flags}

Init == Constructed(Encoders(2..4, 1..MaxWordLen, 1..MaxCells, Flags))

Next == Transform(Batches)

Spec == Init /\ [][Next]_vars

----------------------------------------------------------------------------
(* SpecValidate: the same calls over the configurations around the limits  *)
(* of lines 115-118: alphabet sizes 0..6, word lengths -1..18, on batches   *)
(* of short series.                                                        *)

ShortBatches == {b \in Batches : Len(b[1]) <= 2}

ValidateInit ==
    Constructed(Encoders(0..6, (-1)..18, 1..2, {DefaultFlags}))

ValidateNext == Transform(ShortBatches)

SpecValidate == ValidateInit /\ [][ValidateNext]_vars

ValidationErrors ==
    {"RuntimeError: Alphabet size must be an integer between 2 and 4",
     "RuntimeError: Word length must be an integer between 1 and 16"}

OutOfRange ==
    \/ self.alphabet_size < 2
    \/ self.alphabet_size > 4
    \/ self.word_length < 1
    \/ self.word_length > 16

\* C1: _transform raises and returns nothing whenever alphabet_size < 2,
\* alphabet_size > 4, word_length < 1 or word_length > 16, before the
\* breakpoint table is built, the word matrix allocated or any word
\* computed; for alphabet_size in 2..4 with word_length in 1..16 the
\* validation does not raise.
C1_FailFast ==
    pc \notin {"idle", "validate"} =>
        /\ OutOfRange =>
              /\ pc = "raised"
              /\ error \in ValidationErrors
              /\ result = None
              /\ breakpoints = None
              /\ all_words = None
              /\ patterns = None
              /\ written = {}
        /\ ~OutOfRange => error \notin ValidationErrors

C1_Witness ==
    /\ pc = "raised"
    /\ self.alphabet_size = 4
    /\ self.word_length = 17
    /\ error \in ValidationErrors
    /\ breakpoints = None

----------------------------------------------------------------------------
(* Properties of the encoding runs (Spec) *)

Constant(w) == \A k \in DOMAIN w : w[k] = w[1]

\* every window of every instance has non-zero variance
AllWindowsVary ==
    \A r \in 1..n_instances : \A n \in 1..num_windows_per_inst :
        ~Constant(Window(X[r], n - 1, self.window_size))

\* a call in or past its encoder loop, on a configuration with
\* word_length <= window_size <= series_length
EncodingCase ==
    /\ pc \in {"encode", "done"}
    /\ self.word_length <= self.window_size
    /\ self.window_size <= series_length

\* ceil(log2(a)) for a in 1..16
BitsFor(a) == CHOOSE b \in 0..4 : 2 ^ b >= a /\ (b = 0 \/ 2 ^ (b - 1) < a)

\* C2 as claimed: for a valid configuration and windows of non-zero
\* variance, every emitted word lies in [0, alphabet_size^word_length).
C2_WordRange ==
    (EncodingCase /\ AllWindowsVary) =>
        \A c \in written :
            WordVal(all_words[c[1]][c[2]]) < Pow(self.alphabet_size, self.word_length)

\* C2 as amended: for a valid configuration and windows of non-zero
\* variance, every emitted word lies in [0, 2^(letter_bits * word_length)),
\* letter_bits = ceil(log2(alphabet_size)).
C2_WordRangeBits ==
    (EncodingCase /\ AllWindowsVary) =>
        \A c \in written :
            /\ all_words[c[1]][c[2]].hi < Limb \div 2
            /\ WordVal(all_words[c[1]][c[2]]) <
                  Pow(2, BitsFor(self.alphabet_size) * self.word_length)

C2_Witness ==
    /\ EncodingCase /\ AllWindowsVary
    /\ self.alphabet_size = 3
    /\ self.word_length = 3
    /\ \E c \in written : WordVal(all_words[c[1]][c[2]]) = 40

\* C8: for a valid configuration with window_size <= series_length the word
\* matrix has n_instances rows and series_length - window_size + 1 columns,
\* and the encoder loop assigns every cell.
C8_Shape ==
    (pc = "done" /\ self.window_size <= series_length) =>
        /\ Len(all_words) = Len(X)
        /\ \A r \in DOMAIN all_words :
              Len(all_words[r]) = Len(X[1]) - self.window_size + 1
        /\ written = {<<r, n>> : r \in 1..Len(X),
                                 n \in 1..(Len(X[1]) - self.window_size + 1)}
        /\ result.form \in {"dense", "sparse"} =>
              result.shape = <<Len(X), Len(X[1]) - self.window_size + 1>>

C8_Witness ==
    /\ pc = "done"
    /\ Len(X) = 2 /\ Len(X[1]) = 2
    /\ self.window_size = 1
    /\ Cardinality(written) = 4
    /\ result.form = "sparse"

----------------------------------------------------------------------------
(* SpecRepeat: direct calls of the static method _remove_repeating_words,  *)
(* first on any word matrix, then again on what the first call returned.   *)
(* The method rewrites its argument in place and returns it.               *)

RepeatWords == {Word(0), Word(1), Word(2)}

ExactFp == [nan_le |-> FALSE, D |-> NoRounding]

RepeatInit ==
    /\ NoTransform
    /\ pc = "repeat_call"
    /\ ret = None
    /\ fp = ExactFp
    /\ \E m \in Matrices(0, RepeatWords) :
          call = [words |-> m, original |-> m, previous |-> m]

RemoveRepeatingWordsCall ==
    /\ pc = "repeat_call"
    /\ ret' = _remove_repeating_words(call.words)
    /\ call' = [call EXCEPT !.words = ret']
    /\ pc' = "repeat_done"
    /\ UNCHANGED <<transformVars, fp, history>>

RemoveRepeatingWordsAgain ==
    /\ pc = "repeat_done"
    /\ ret' = _remove_repeating_words(ret)
    /\ call' = [call EXCEPT !.words = ret', !.previous = ret]
    /\ pc' = "repeat_again"
    /\ UNCHANGED <<transformVars, fp, history>>

RepeatNext == RemoveRepeatingWordsCall \/ RemoveRepeatingWordsAgain

SpecRepeat == RepeatInit /\ [][RepeatNext]_vars

\* C6: every word equal to the word immediately before it in its row is
\* replaced by 0, so a run of k >= 2 identical non-zero words keeps exactly
\* one non-zero occurrence, the first of the run, whatever k is.
C6_RunsCollapse ==
    pc = "repeat_done" =>
        \A r \in DOMAIN ret : \A j \in DOMAIN ret[r] :
            LET row == call.original[r]
                repeated == j > 1 /\ row[j] = row[j - 1]
            IN  /\ repeated => ret[r][j] = Word(0)
                /\ (~repeated /\ row[j] # Word(0)) => ret[r][j] = row[j]

NoAdjacentEqualNonZero(m) ==
    \A r \in DOMAIN m : \A j \in DOMAIN m[r] :
        (j > 1 /\ m[r][j] # Word(0)) => m[r][j] # m[r][j - 1]

\* C7: after one pass no row holds two adjacent equal non-zero words, and a
\* second pass over that result changes no entry.
C7_Idempotent ==
    /\ pc \in {"repeat_done", "repeat_again"} => NoAdjacentEqualNonZero(ret)
    /\ pc = "repeat_again" => ret = call.previous

C7_Witness ==
    /\ pc = "repeat_again"
    /\ \E r \in DOMAIN ret :
          /\ Len(ret[r]) >= 3
          /\ call.original[r][1] = Word(2)
          /\ call.original[r][2] = Word(2)
          /\ call.original[r][3] = Word(2)
          /\ ret[r] # call.original[r]

----------------------------------------------------------------------------
(* SpecPAA: direct calls of the static method _perform_paa_along_dim on    *)
(* integer-valued rows.                                                    *)

PaaSamples == {-1, 0, 2}

PaaCallInit ==
    /\ NoTransform
    /\ pc = "paa_call"
    /\ ret = None
    /\ \E m \in Matrices(1, PaaSamples), L \in 1..MaxWordLen :
          /\ call = [X |-> m, num_intervals |-> L]
          /\ \E D \in SUBSET RoundingPoints(Len(m[1]), L) :
                fp = [nan_le |-> FALSE, D |-> D]

\* a row of integer-valued doubles
IntRow(r) == [nan |-> FALSE, nums |-> r, rad |-> 1]

_perform_paa_along_dim(rows, num_intervals, D) ==
    [r \in DOMAIN rows |-> PaaRow(rows[r], num_intervals, D)]

PerformPaaCall ==
    /\ pc = "paa_call"
    /\ ret' = _perform_paa_along_dim([r \in DOMAIN call.X |-> IntRow(call.X[r])],
                                     call.num_intervals, fp.D)
    /\ pc' = "paa_done"
    /\ UNCHANGED <<transformVars, call, fp, history>>

PaaNext == PerformPaaCall

SpecPAA == PaaCallInit /\ [][PaaNext]_vars

Max2(a, b) == IF a >= b THEN a ELSE b

Min2(a, b) == IF a <= b THEN a ELSE b

\* the overlap of sample [n, n+1) with frame [k*f, (k+1)*f), f = W / L, in
\* units of 1/L of a sample (n, k 0-based)
Overlap(n, k, W, L) ==
    Max2(0, Min2((n + 1) * L, (k + 1) * W) - Max2(n * L, k * W))

PaaCase ==
    /\ pc = "paa_done"
    /\ call.num_intervals <= Len(call.X[1])

\* C9: for 1 <= word_length <= window_size, in exact arithmetic, segment k
\* is (1/f) * sum over n of overlap([n,n+1), [k*f,(k+1)*f)) * x[n] with
\* f = window_size / word_length; when word_length divides window_size it is
\* the mean of the k-th block of f samples; a sample's weights over the
\* frames add up to 1.
C9_SegmentMeans ==
    PaaCase =>
        LET W == Len(call.X[1])
            L == call.num_intervals
        IN  /\ \A r \in DOMAIN ret : \A k \in 0..(L - 1) :
                  /\ ret[r].data[k + 1] =
                        Real(SumSeq([n \in 1..W |->
                                Overlap(n - 1, k, W, L) * call.X[r][n]]), W * W)
                  /\ W % L = 0 =>
                        ret[r].data[k + 1] =
                           Real(L * SumSeq([n \in 1..(W \div L) |->
                                    call.X[r][k * (W \div L) + n]]), W * W)
            /\ \A n \in 0..(W - 1) :
                  SumSeq([k \in 1..L |-> Overlap(n, k - 1, W, L)]) = L

C9_Witness ==
    /\ PaaCase
    /\ call.num_intervals = 2
    /\ call.X[1] = <<2, -1, 0>>
    /\ ret[1].data = <<Real(3, 9), Real(-1, 9)>>

\* C10: for window_size >= word_length >= 1, when a window is finished every
\* one of its word_length slots has been written, by an in-loop store or by
\* the final flush, in increasing segment order, and every store has
\* current_frame < word_length.
C10_AllSlotsWritten ==
    PaaCase =>
        \A r \in DOMAIN ret :
            ret[r].log = [k \in 1..call.num_intervals |-> k - 1]

\* the last slot was written by the flush of lines 189-190
C10_Witness ==
    /\ PaaCase
    /\ \E r \in DOMAIN ret :
          /\ ret[r].current_frame = call.num_intervals - 1
          /\ Len(ret[r].log) = call.num_intervals
          /\ ret[r].data[call.num_intervals] # Real(0, 1)

----------------------------------------------------------------------------
(* Properties of _generate_words (SpecWords) *)

WordsDone == pc = "words_done"

AllFinite(pattern) == \A k \in DOMAIN pattern : ~pattern[k].nan

\* v <= b read off the hundredths of a value of PatternValues
HundredthsLe(v, b) == b.inf \/ v.num <= b.c

\* the symbols the scan of lines 213-216 picks for the call's pattern
ScannedSymbols ==
    [k \in 1..call.word_length |->
        ScanBreakpoints(call.pattern[k], call.breakpoints, 0, fp.nan_le)]

\* word & (2^letter_bits - 1) and word >> letter_bits on the two limbs
LowBits(w, letter_bits) == w.lo % (2 ^ letter_bits)

ShiftRight(w, letter_bits) ==
    [hi |-> w.hi \div (2 ^ letter_bits),
     lo |-> w.lo \div (2 ^ letter_bits)
              + (w.hi % (2 ^ letter_bits)) * (Limb \div (2 ^ letter_bits))]

\* n times: mask the low letter_bits bits, shift right; the symbols come out
\* last first, so the result is put back in time order
RECURSIVE Unpack(_, _, _)
Unpack(w, letter_bits, n) ==
    IF n = 0 THEN <<>>
    ELSE Append(Unpack(ShiftRight(w, letter_bits), letter_bits, n - 1),
                LowBits(w, letter_bits))

\* a pattern whose segment k falls in the bin of symbol syms[k]: the value
\* of that symbol's breakpoint, or 1 above the last finite one
PatternOf(syms, bps) ==
    [k \in DOMAIN syms |->
        IF bps[syms[k] + 1].inf THEN Hundredths(bps[syms[k]].c + 100)
        ELSE Hundredths(bps[syms[k] + 1].c)]

\* C3: packing word_length symbols, each in [0, alphabet_size), and then
\* word_length times masking the low letter_bits bits and shifting right by
\* letter_bits gives back the same ordered symbols; two distinct symbol
\* sequences of the same length never pack to the same word.
C3_RoundTrip ==
    (WordsDone /\ AllFinite(call.pattern)) =>
        LET syms == ScannedSymbols
        IN  /\ \A k \in 1..call.word_length :
                  syms[k] \in 0..(call.alphabet_size - 1)
            /\ Unpack(ret, call.letter_bits, call.word_length) = syms
            /\ \A other \in [1..call.word_length -> 0..(call.alphabet_size - 1)] :
                  other # syms =>
                     _generate_words(PatternOf(other, call.breakpoints),
                                     call.word_length, call.breakpoints,
                                     call.letter_bits, FALSE) # ret

C3_Witness ==
    /\ WordsDone /\ AllFinite(call.pattern)
    /\ call.alphabet_size = 3 /\ call.word_length >= 2
    /\ ScannedSymbols[1] = 2 /\ ScannedSymbols[2] = 1

\* C4: the symbol of a finite segment value v is the smallest index bp with
\* v <= breakpoints[bp]; a value equal to a breakpoint gets that
\* breakpoint's index; the index exists and lies in [0, alphabet_size), and
\* exactly one symbol is packed per segment.
C4_FirstBreakpoint ==
    (WordsDone /\ AllFinite(call.pattern)) =>
        /\ Len(call.breakpoints) = call.alphabet_size
        /\ call.breakpoints[call.alphabet_size].inf
        /\ \A k \in 1..call.word_length :
              LET v  == call.pattern[k]
                  bp == Unpack(ret, call.letter_bits, call.word_length)[k]
              IN  /\ bp \in 0..(call.alphabet_size - 1)
                  /\ HundredthsLe(v, call.breakpoints[bp + 1])
                  /\ \A j \in 0..(bp - 1) : ~HundredthsLe(v, call.breakpoints[j + 1])
                  /\ \A j \in 0..(call.alphabet_size - 2) :
                        v.num = call.breakpoints[j + 1].c => bp = j
        /\ ShiftRight(ShiftRight(ret, call.letter_bits * (call.word_length - 1)),
                      call.letter_bits) = Word(0)

C4_Witness ==
    /\ WordsDone /\ AllFinite(call.pattern)
    /\ call.alphabet_size = 4 /\ call.word_length >= 2
    /\ call.pattern[1] = Hundredths(67) /\ call.pattern[2] = Hundredths(100)
    /\ WordVal(ret) \div Pow(4, call.word_length - 2) = 11

\* C5: the word of the time-ordered symbols s_0 .. s_(L-1) is the sum of
\* s_k * 2^(letter_bits * (L-1-k)): first segment in the highest-order bits.
C5_BigEndian ==
    (WordsDone /\ AllFinite(call.pattern)) =>
        LET L == call.word_length
        IN  WordVal(ret) =
              SumSeq([k \in 1..L |->
                        ScannedSymbols[k] * 2 ^ (call.letter_bits * (L - k))])

C5_Witness ==
    /\ WordsDone /\ AllFinite(call.pattern)
    /\ call.alphabet_size = 4 /\ call.word_length = MaxWordLen
    /\ ScannedSymbols[1] = 3 /\ ScannedSymbols[call.word_length] = 1
    /\ WordVal(ret) >= 3 * Pow(4, MaxWordLen - 1)

----------------------------------------------------------------------------
(* SpecEncode: the encoding runs of Spec with the output flags left at     *)
(* their defaults and remove_repeat_words either way.                      *)

EncodeFlags == {f \in Flags : f[2] /\ ~f[3] /\ ~f[4]}

EncodeInit == Constructed(Encoders(2..4, 1..MaxWordLen, 1..MaxCells, EncodeFlags))

EncodeNext == Transform(Batches)

SpecEncode == EncodeInit /\ [][EncodeNext]_vars

\* the word of one window of integer samples under the encoder s: z-score,
\* PAA, discretisation, packing
WordOf(s, w) ==
    _generate_words(PaaRow(zscore(w), s.word_length, fp.D).data, s.word_length,
                    _generate_breakpoints(s.alphabet_size),
                    LetterBits(s.alphabet_size), fp.nan_le)

\* C11: for each instance i and each j in 0 .. series_length - window_size
\* the word stored in column j is the word of the contiguous samples
\* X[i, j], ..., X[i, j + window_size - 1]: stride 1, start offset = column.
C11_WindowContents ==
    (pc = "encode" /\ self.window_size <= series_length) =>
        \A c \in written :
            all_words[c[1]][c[2]] =
                WordOf(self, SubSeq(X[c[1]], c[2], c[2] + self.window_size - 1))

C11_Witness ==
    /\ pc = "encode"
    /\ i = 1
    /\ self.window_size = 2
    /\ self.word_length = 2
    /\ self.alphabet_size = 2
    /\ X[1] = <<0, 1, 0>>
    /\ all_words[1] = <<Word(1), Word(2)>>

----------------------------------------------------------------------------
(* SpecForms: encoding runs with every setting of the flags, up to the     *)
(* longest word the validation admits, on the batches of Spec and on       *)
(* batches of series as long as that word.                                 *)

\* the upper limit of word_length, line 117
LongestWord == 16

\* the series of LongestWord samples that start with m ones
WideBatches ==
    {<<[k \in 1..LongestWord |-> IF k <= m THEN 1 ELSE 0]>> : m \in 1..(LongestWord - 1)}

FormsInit ==
    Constructed(Encoders(2..4, {1, MaxWordLen, LongestWord},
                         {MaxWordLen, LongestWord}, Flags))

FormsNext == Transform(Batches \cup WideBatches)

SpecForms == FormsInit /\ [][FormsNext]_vars

\* the words the encoder s computes for a batch, before and after the
\* repeat filter
EncodedWords(s, batch) ==
    [r \in DOMAIN batch |->
        [n \in 1..(Len(batch[r]) - s.window_size + 1) |->
            WordOf(s, SubSeq(batch[r], n, n + s.window_size - 1))]]

FinalWords(s, batch) ==
    IF s.remove_repeat_words THEN _remove_repeating_words(EncodedWords(s, batch))
    ELSE EncodedWords(s, batch)

\* the entry (r, n), 1-based, of a sparse matrix
CsrAt(res, r, n) ==
    LET ks == {k \in (res.indptr[r] + 1)..res.indptr[r + 1] : res.indices[k] = n - 1}
    IN  IF ks = {} THEN Word(0) ELSE res.data[CHOOSE k \in ks : TRUE]

\* the integer a returned artifact holds at (instance r, window n)
ValueAt(res, r, n) ==
    CASE res.form = "dense"  -> res.array[r][n]
      [] res.form = "sparse" -> CsrAt(res, r, n)
      [] res.form = "pandas" -> res.column0[r][n]

\* the integers of a returned artifact, by instance and window
Values(res) ==
    [r \in 1..n_instances |->
        [n \in 1..num_windows_per_inst |-> ValueAt(res, r, n)]]

ValidCase ==
    /\ pc = "done"
    /\ self.word_length <= self.window_size
    /\ self.window_size <= series_length

\* C12: for the same input, word_length, alphabet_size, window_size and
\* remove_repeat_words, the dense, the sparse and the per-instance sequence
\* output hold the same integer at every (instance, window) position, up to
\* word_length 16 with alphabet_size 4: what is returned holds at each
\* position the word the configuration and the input determine, and the
\* three forms of the call's word matrix agree.
C12_FormsAgree ==
    ValidCase =>
        /\ Values(result) = FinalWords(self, X)
        /\ Values(Dense(all_words, num_windows_per_inst)) =
              Values(csr_matrix(all_words, num_windows_per_inst))
        /\ Values(DataFrame(all_words)) =
              Values(csr_matrix(all_words, num_windows_per_inst))

C12_Witness ==
    /\ ValidCase
    /\ self.word_length = LongestWord
    /\ self.alphabet_size = 4
    /\ result.form = "sparse"
    /\ Len(result.data) = 1
    /\ result.data[1].hi >= Limb \div 2
    /\ result.data[1] = all_words[1][1]

----------------------------------------------------------------------------
(* The returned artifact (Spec) *)

\* C13: the form of the returned artifact is fixed by the two flags and not
\* by the data: the per-instance sequences when return_pandas_data_series,
\* whatever return_sparse is; otherwise the sparse matrix when
\* return_sparse; otherwise the dense matrix; a successful call returns
\* exactly one of them, a call that has not succeeded returns nothing.
C13_FormByFlags ==
    IF pc = "done"
    THEN /\ result.form \in {"pandas", "sparse", "dense"}
         /\ result.form = "pandas" <=> self.return_pandas_data_series
         /\ result.form = "sparse" <=>
               (~self.return_pandas_data_series /\ self.return_sparse)
         /\ result.form = "dense" <=>
               (~self.return_pandas_data_series /\ ~self.return_sparse)
    ELSE result = None

C13_Witness ==
    /\ pc = "done"
    /\ self.return_pandas_data_series
    /\ self.return_sparse
    /\ result.form = "pandas"
    /\ result.column0 = all_words
    /\ num_windows_per_inst >= 2

----------------------------------------------------------------------------
(* SpecCalls: one encoder called again and again.  Between calls the       *)
(* caller may assign the public attributes alphabet_size, word_length and  *)
(* save_words (lines 89-95 make them plain attributes, read anew by every  *)
(* call).  history keeps one earlier call, chosen freely, with what it      *)
(* returned, and the kinds of calls that came back after it.               *)

\* the parameters of an encoder, without what its calls have stored
Config(s) == [s EXCEPT !.words = <<>>, !.letter_bits = 0]

CallKind ==
    IF pc = "raised"
    THEN (IF error \in ValidationErrors THEN "rejected" ELSE "failed")
    ELSE (IF self.save_words THEN "saved" ELSE "returned")

\* the call comes back to the caller (lines 116, 118, 153, 157), its locals
\* are gone
Return ==
    /\ pc \in {"done", "raised"}
    /\ pc' = "idle"
    /\ \/ /\ history.kept = <<>>
          /\ history' = [kept  |-> <<[config |-> Config(self), X |-> X,
                                      result |-> result, error |-> error]>>,
                         since |-> {}]
       \/ /\ history.kept = <<>>
          /\ history' = history
       \/ /\ history.kept # <<>>
          /\ history' = [history EXCEPT !.since = @ \cup {CallKind}]
    /\ X' = None
    /\ breakpoints' = None
    /\ all_words' = None
    /\ written' = {}
    /\ i' = 0
    /\ patterns' = None
    /\ error' = NoError
    /\ result' = None
    /\ UNCHANGED <<self, call, ret, fp>>

\* an assignment to the attributes between two calls; the build's rounding
\* stays one it can show for the new word_length
SetParams(alphabets, lengths) ==
    /\ pc = "idle"
    /\ \E a \in alphabets, L \in lengths, sv \in BOOLEAN :
          /\ fp.D \in Roundings(self.window_size, L)
          /\ self' = [self EXCEPT !.alphabet_size = a, !.word_length = L,
                                  !.save_words = sv]
          /\ self' # self
    /\ UNCHANGED <<pc, X, breakpoints, all_words, written, i, patterns, error,
                   result, call, ret, fp, history>>

CallAlphabets == {2, 4, 5}

CallLengths == {2, LongestWord + 1}

CallBatches == {<<<<0, 1>>>>, <<<<1, 0>>>>}

CallsInit ==
    Constructed(Encoders(CallAlphabets, CallLengths, {2},
                         {f \in Flags : ~f[1] /\ ~f[2] /\ ~f[4]}))

CallsNext ==
    \/ Transform(CallBatches)
    \/ Return
    \/ SetParams(CallAlphabets, CallLengths)

SpecCalls == CallsInit /\ [][CallsNext]_vars

\* the call in progress has come to its end with the configuration and the
\* input of the call history keeps
RepeatedCall ==
    /\ pc \in {"done", "raised"}
    /\ history.kept # <<>>
    /\ history.kept[1].config = Config(self)
    /\ history.kept[1].X = X

\* C14: two calls on the same encoder with the same configuration and the
\* same batch return the same, whatever calls (other inputs, save_words on
\* or off, calls that failed validation) were made in between.
C14_Deterministic ==
    RepeatedCall =>
        /\ error = history.kept[1].error
        /\ (pc = "done") = (history.kept[1].error = NoError)
        /\ pc = "done" => result = history.kept[1].result

C14_Witness ==
    /\ RepeatedCall
    /\ pc = "done"
    /\ self.alphabet_size = 2
    /\ {"rejected", "saved", "returned"} \subseteq history.since
    /\ self.words # <<>>
    /\ self.words # result.array

\* C19: when a call fails validation the encoder's retained state is what
\* it was before the call: from the call to the raise the saved words and
\* the stored letter_bits do not change, nor any other attribute, and
\* nothing is returned.
C19_RejectedKeepsState ==
    [][(pc \in {"idle", "validate"} /\ pc' \in {"validate", "raised"}) =>
          /\ self' = self
          /\ result' = None
          /\ pc' = "raised" => error' \in ValidationErrors]_vars

C19_Witness ==
    /\ pc = "raised"
    /\ error \in ValidationErrors
    /\ self.alphabet_size = 4
    /\ self.word_length = LongestWord + 1
    /\ self.words = <<<<Word(12)>>>>
    /\ self.letter_bits = 2
    /\ result = None

----------------------------------------------------------------------------
(* Instances are encoded independently (SpecEncode) *)

Reverse(batch) == [r \in 1..Len(batch) |-> batch[Len(batch) + 1 - r]]

\* C15: row i of the output depends only on row i of the input: it is the
\* row the encoder returns for that series alone, whatever the other
\* instances hold and in whatever order the instances come, also with
\* remove_repeat_words (the last word of instance i-1 never suppresses the
\* first word of instance i).
C15_RowsIndependent ==
    (pc = "done" /\ self.window_size <= series_length) =>
        /\ \A r \in 1..n_instances :
              <<all_words[r]>> = FinalWords(self, <<X[r]>>)
        /\ Reverse(all_words) = FinalWords(self, Reverse(X))

C15_Witness ==
    /\ pc = "done"
    /\ self.remove_repeat_words
    /\ n_instances = 2
    /\ X[1] = X[2]
    /\ series_length = self.window_size
    /\ all_words[1][1] # Word(0)
    /\ all_words[2][1] = all_words[1][1]

----------------------------------------------------------------------------
(* Shapes the validation does not look at (SpecEncode) *)

\* C16: for every window_size > series_length, window_size =
\* series_length + 1 with its zero windows included, the call fails with an
\* error and does not return an output of zero columns.
C16_TooWideFails ==
    pc = "done" => self.window_size <= series_length

\* C17: for every configuration with word_length > window_size, otherwise
\* valid, the call fails with an error before the PAA stage runs and does
\* not return words computed from a window shorter than the word.
C17_TooLongFails ==
    (pc \in {"encode", "done"} /\ self.word_length > self.window_size
        /\ self.window_size <= series_length) =>
        /\ pc # "done"
        /\ i = 0

----------------------------------------------------------------------------
(* Constant windows (SpecEncode) *)

\* the windows (0-based starts) of instance r that are constant
ConstantWindows(r) ==
    {n \in 0..(num_windows_per_inst - 1) :
        Constant(Window(X[r], n, self.window_size))}

\* what C18 says of a call whose windows fit the series
ConstantWindowsAreZero ==
    /\ pc # "raised"
    /\ error = NoError
    /\ pc = "encode" =>
          \A c \in written :
             IF c[2] - 1 \in ConstantWindows(c[1])
             THEN /\ all_words[c[1]][c[2]] = Word(0)
                  /\ c[1] = i => \A k \in 1..self.word_length :
                                    patterns[c[2]][k].nan
             ELSE all_words[c[1]][c[2]] =
                     WordOf(self, Window(X[c[1]], c[2] - 1, self.window_size))

----------------------------------------------------------------------------
(* The saved words (Spec) *)

\* C20: after a successful call with save_words the attribute words is the
\* word matrix as the word encoder produced it, one packed word per
\* instance and window, for every setting of remove_repeat_words,
\* return_sparse and return_pandas_data_series.
C20_SavedRaw ==
    (pc = "done" /\ self.save_words) => self.words = EncodedWords(self, X)

----------------------------------------------------------------------------
(* What a call leaves on the encoder (SpecCalls) *)

\* C21: a call changes no attribute of the encoder other than words, and
\* that one only when save_words is true, to the matrix of the call: after
\* any sequence of calls words is the matrix of the last successful call
\* with save_words, and every other attribute is as the constructor (or the
\* caller) set it.
C21_OnlyWordsChange ==
    [][(pc # "idle" \/ pc' # "idle") =>
          /\ [self' EXCEPT !.words = self.words] = self
          /\ self'.words # self.words =>
                (self.save_words /\ pc' = "done" /\ self'.words = all_words')]_vars

----------------------------------------------------------------------------
(* The widths of the integers that hold a word (SpecForms) *)

\* the value bits of the accumulator of _generate_words, lines 211-215
AccumulatorBits == 63

\* the value bits of an entry of the np.int_ word matrix, line 124
MatrixBits == 63

\* the value bits of an entry of the uint32 sparse output, line 155
SparseBits == 32

\* 0 <= w < 2^bits, for bits in 1..32
FitsBits(w, bits) ==
    /\ w.lo \in 0..(Limb - 1)
    /\ IF bits <= 16 THEN w.hi = 0 /\ w.lo < 2 ^ bits
       ELSE w.hi \in 0..(2 ^ (bits - 16) - 1)

WordBits == self.word_length * self.letter_bits

----------------------------------------------------------------------------
(* The order of the symbols (SpecWords) *)

\* the table is strictly ascending, has n entries and ends in +infinity
AscendingTable(bps, n) ==
    /\ Len(bps) = n
    /\ bps[n].inf
    /\ \A j \in 1..(n - 1) : ~bps[j].inf
    /\ \A j \in 1..(n - 2) : bps[j].c < bps[j + 1].c

\* C23: the symbol assigned to a segment value is non-decreasing in the
\* value: for alphabet_size in 2..4 and finite values v1 <= v2 of one
\* pattern, the symbol packed for v1 is at most the symbol packed for v2;
\* the breakpoint table of the call is strictly ascending, has exactly
\* alphabet_size entries and ends in +infinity.
C23_Monotone ==
    (WordsDone /\ AllFinite(call.pattern)) =>
        LET syms == Unpack(ret, call.letter_bits, call.word_length)
        IN  /\ call.breakpoints = _generate_breakpoints(call.alphabet_size)
            /\ AscendingTable(call.breakpoints, call.alphabet_size)
            /\ \A j, k \in 1..call.word_length :
                  call.pattern[j].num <= call.pattern[k].num => syms[j] <= syms[k]

\* a pattern that falls from the last bin of alphabet size 4 to the first,
\* through a value equal to a breakpoint
C23_Witness ==
    /\ WordsDone
    /\ call.alphabet_size = 4 /\ call.word_length = 3
    /\ call.pattern = <<Hundredths(100), Hundredths(0), Hundredths(-100)>>
    /\ Unpack(ret, call.letter_bits, call.word_length) = <<3, 1, 0>>

----------------------------------------------------------------------------
(* compose.py: the component transformers of a composite.  A component is  *)
(* any transformer of the framework, so its methods are left uninterpreted:*)
(* a value records the input it was derived from and the component methods *)
(* applied to it, in order, and every call is logged.                      *)

Value(base) == [base |-> base, applied |-> <<>>]

Inputs == {Value("X1"), Value("X2")}

Blueprints == {"a", "b"}

\* the i-th estimator of a composite is a clone of the i-th blueprint
\* (lines 106-110)
Clones(blueprints) ==
    [k \in 1..Len(blueprints) |-> [blueprint |-> blueprints[k], index |-> k]]

Returned(est, method, x) == [x EXCEPT !.applied = Append(@, <<est, method>>)]

Called(est, method, x) == [est |-> est, method |-> method, X |-> x]

NoCalls == [Xt |-> None, log |-> <<>>]

\* est.fit(X, y); it returns est
fit(est, st) == [st EXCEPT !.log = Append(@, Called(est, "fit", st.Xt))]

\* Xt = est.transform(X=Xt, y=y)
transform(est, st) ==
    [Xt  |-> Returned(est, "transform", st.Xt),
     log |-> Append(st.log, Called(est, "transform", st.Xt))]

\* Xt = est.fit_transform(X=Xt, y=y): the framework's fit(X, y).transform(X, y)
fit_transform(est, st) == transform(est, fit(est, st))

\* Xt = est.inverse_transform(X=Xt, y=y)
inverse_transform(est, st) ==
    [Xt  |-> Returned(est, "inverse_transform", st.Xt),
     log |-> Append(st.log, Called(est, "inverse_transform", st.Xt))]

----------------------------------------------------------------------------
(* TransformerPipeline._transform and ._inverse_transform, lines 262-312 *)

\* a faulty variant: every step is given the pipeline's input
RECURSIVE TransformLoopUnchained(_, _, _, _)
TransformLoopUnchained(steps_, fit_is_empty, k, st) ==
    IF k > Len(steps_) THEN st
    ELSE LET out == transform(steps_[k], [st EXCEPT !.Xt = Value(st.Xt.base)])
         IN  TransformLoopUnchained(steps_, fit_is_empty, k + 1, out)

\* the loop of lines 280-284 from the k-th step on
RECURSIVE TransformLoop(_, _, _, _)
TransformLoop(steps_, fit_is_empty, k, st) ==
    IF k > Len(steps_) THEN st
    ELSE TransformLoop(steps_, fit_is_empty, k + 1,
                       IF ~fit_is_empty THEN transform(steps_[k], st)
                       ELSE fit_transform(steps_[k], st))

TransformerPipeline_transform(steps_, fit_is_empty, x) ==
    TransformLoop(steps_, fit_is_empty, 1, [Xt |-> x, log |-> <<>>])

\* a faulty variant: the steps are not reversed
reversedNot(steps_) == steps_

\* reversed(self.steps_), line 306
reversed(steps_) == [k \in 1..Len(steps_) |-> steps_[Len(steps_) + 1 - k]]

\* the loop of lines 306-310 over the reversed steps, from the k-th on
RECURSIVE InverseLoop(_, _, _, _)
InverseLoop(steps, fit_is_empty, k, st) ==
    IF k > Len(steps) THEN st
    ELSE InverseLoop(steps, fit_is_empty, k + 1,
                     IF ~fit_is_empty THEN inverse_transform(steps[k], st)
                     ELSE inverse_transform(steps[k], fit(steps[k], st)))

TransformerPipeline_inverse_transform(steps_, fit_is_empty, x) ==
    InverseLoop(reversed(steps_), fit_is_empty, 1, [Xt |-> x, log |-> <<>>])

\* SpecPipeline: one call of _transform or of _inverse_transform on a
\* pipeline of 1..MaxSteps steps, with the tag fit_is_empty either way.
PipelineInit ==
    /\ NoTransform
    /\ fp = ExactFp
    /\ pc = "pipeline_call"
    /\ ret = NoCalls
    /\ \E n \in 1..MaxSteps :
          \E blueprints \in [1..n -> Blueprints], fit_is_empty \in BOOLEAN, x \in Inputs :
             call = [steps_ |-> Clones(blueprints), fit_is_empty |-> fit_is_empty,
                     X |-> x, method |-> "none"]

PipelineTransformCall ==
    /\ pc = "pipeline_call"
    /\ ret' = TransformerPipeline_transform(call.steps_, call.fit_is_empty, call.X)
    /\ call' = [call EXCEPT !.method = "transform"]
    /\ pc' = "pipeline_done"
    /\ UNCHANGED <<transformVars, fp, history>>

PipelineInverseTransformCall ==
    /\ pc = "pipeline_call"
    /\ ret' = TransformerPipeline_inverse_transform(call.steps_, call.fit_is_empty,
                                                    call.X)
    /\ call' = [call EXCEPT !.method = "inverse_transform"]
    /\ pc' = "pipeline_done"
    /\ UNCHANGED <<transformVars, fp, history>>

PipelineNext == PipelineTransformCall \/ PipelineInverseTransformCall

SpecPipeline == PipelineInit /\ [][PipelineNext]_vars

\* the calls of one method in a log, in order
CallsOf(log, method) == SelectSeq(log, LAMBDA c : c.method = method)

PipelineDone(method) == pc = "pipeline_done" /\ call.method = method

----------------------------------------------------------------------------
(* MultiplexTransformer, lines 805-854 *)

NoSelection == [none |-> TRUE, name |-> ""]

Selected(name) == [none |-> FALSE, name |-> name]

\* transformer.clone(), lines 851 and 854
clone(est) == [est EXCEPT !.cloned = TRUE]

\* the names of the components, as the framework reports them (unique,
\* lines 85-89)
ComponentNames(tuples) == {tuples[k].name : k \in 1..Len(tuples)}

\* lines 835-845: whether the check raises
_check_selected_transformer(tuples, selected) ==
    ~selected.none /\ selected.name \notin ComponentNames(tuples)

\* a faulty variant: the first transformer is cloned whatever the name
RECURSIVE SetTransformerFirst(_, _, _, _)
SetTransformerFirst(tuples, selected, k, transformer_) ==
    clone(tuples[1].est)

\* the loop of lines 849-851 from the k-th tuple on
RECURSIVE SetTransformerLoop(_, _, _, _)
SetTransformerLoop(tuples, selected, k, transformer_) ==
    IF k > Len(tuples) THEN transformer_
    ELSE SetTransformerLoop(tuples, selected, k + 1,
                            IF selected.name = tuples[k].name
                            THEN clone(tuples[k].est) ELSE transformer_)

\* lines 847-854: the error raised and self.transformer_
_set_transformer(tuples, selected) ==
    IF _check_selected_transformer(tuples, selected)
    THEN [error |-> "Exception", transformer_ |-> None]
    ELSE [error |-> NoError,
          transformer_ |-> IF ~selected.none
                           THEN SetTransformerLoop(tuples, selected, 1, None)
                           ELSE clone(tuples[1].est)]

Names == {"n1", "n2", "n3", "n4"}

\* the lists of 1..MaxSteps named transformers with distinct names
TransformerLists ==
    UNION {{t \in [1..n -> Names \X Blueprints] :
              \A j, k \in 1..n : t[j][1] = t[k][1] => j = k} : n \in 1..MaxSteps}

Tuples(t) ==
    [k \in 1..Len(t) |->
        [name |-> t[k][1],
         est  |-> [blueprint |-> t[k][2], index |-> k, cloned |-> FALSE]]]

DelegatedMethods == {"fit", "transform", "inverse_transform", "update"}

\* SpecMultiplex: construction of a multiplexer over a list of named
\* transformers, then one delegated call.
MultiplexInit ==
    /\ NoTransform
    /\ fp = ExactFp
    /\ pc = "multiplex_new"
    /\ ret = [error |-> NoError, transformer_ |-> None, Xt |-> None, log |-> <<>>]
    /\ \E t \in TransformerLists :
          \E selected \in {NoSelection} \cup {Selected(n) : n \in Names \cup {"other"}} :
             call = [transformers |-> Tuples(t), selected_transformer |-> selected]

\* __init__, lines 805-825
MultiplexConstruct ==
    /\ pc = "multiplex_new"
    /\ LET set == _set_transformer(call.transformers, call.selected_transformer)
       IN  /\ ret' = [ret EXCEPT !.error = set.error,
                                 !.transformer_ = set.transformer_]
           /\ pc' = IF set.error = NoError THEN "multiplex_ready"
                    ELSE "multiplex_failed"
    /\ UNCHANGED <<transformVars, call, fp, history>>

\* a call of a delegated method: the same method of self.transformer_
\* (_delegate_name, line 793)
MultiplexDelegate ==
    /\ pc = "multiplex_ready"
    /\ \E method \in DelegatedMethods, x \in Inputs :
          ret' = [ret EXCEPT !.Xt = Returned(ret.transformer_, method, x),
                             !.log = Append(@, Called(ret.transformer_, method, x))]
    /\ pc' = "multiplex_called"
    /\ UNCHANGED <<transformVars, call, fp, history>>

MultiplexNext == MultiplexConstruct \/ MultiplexDelegate

SpecMultiplex == MultiplexInit /\ [][MultiplexNext]_vars

\* C26: the multiplexer delegates to a clone of exactly the transformer
\* whose name equals selected_transformer, and to no other; with
\* selected_transformer None it delegates to a clone of the first
\* transformer of the list; with a selected_transformer that is not a
\* component name construction raises and no transformer_ is set.
C26_DelegatesToSelected ==
    pc # "multiplex_new" =>
        LET tuples   == call.transformers
            selected == call.selected_transformer
        IN  /\ selected.none =>
                  /\ ret.error = NoError
                  /\ ret.transformer_ = [tuples[1].est EXCEPT !.cloned = TRUE]
            /\ \A k \in 1..Len(tuples) :
                  (~selected.none /\ tuples[k].name = selected.name) =>
                     /\ ret.error = NoError
                     /\ ret.transformer_ = [tuples[k].est EXCEPT !.cloned = TRUE]
            /\ (~selected.none /\ \A k \in 1..Len(tuples) : tuples[k].name # selected.name) =>
                  /\ ret.error = "Exception"
                  /\ ret.transformer_ = None
                  /\ pc = "multiplex_failed"
                  /\ ret.log = <<>>
            /\ \A j \in 1..Len(ret.log) :
                  /\ ret.log[j].est = ret.transformer_
                  /\ ret.log[j].est.cloned

\* a call delegated to the clone of the last of three transformers
C26_Witness ==
    /\ pc = "multiplex_called"
    /\ Len(call.transformers) = 3
    /\ call.selected_transformer = Selected(call.transformers[3].name)
    /\ ret.log[1].est.index = 3
    /\ ret.log[1].method = "transform"

\* construction has failed on an unknown name
C26_WitnessRaised ==
    /\ pc = "multiplex_failed"
    /\ call.selected_transformer = Selected("other")

----------------------------------------------------------------------------
(* ColumnwiseTransformer, lines 1322-1389, and _check_columns, 1475-1481 *)

\* a column label: a string, or some other hashable such as an integer
Str(name) == [str |-> TRUE, name |-> name]

Labels == {Str("a"), Str("b"), [str |-> FALSE, name |-> "0"]}

SeqToSet(seq) == {seq[k] : k \in 1..Len(seq)}

\* the sequences of 1..MaxColumns labels
LabelSeqs == UNION {[1..n -> Labels] : n \in 1..MaxColumns}

\* a frame with the given distinct column labels; the column c of the frame
\* named id holds the series (id, c)
Frame(id, columns) ==
    [columns |-> columns,
     data    |-> [c \in SeqToSet(columns) |-> Value([frame |-> id, column |-> c])]]

Frames(id) ==
    {Frame(id, cols) : cols \in {q \in LabelSeqs : \A j, k \in 1..Len(q) :
                                                     q[j] = q[k] => j = k}}

\* the values of the parameter columns: None, a list, a tuple, an integer
ColumnsValues ==
    {[kind |-> "None", elems |-> <<>>], [kind |-> "int", elems |-> <<>>]}
    \cup {[kind |-> k, elems |-> q] : k \in {"list", "tuple"}, q \in LabelSeqs}

ColumnsError == "ValueError: Columns need to be a list of strings or None."

MissingError == "ValueError: Missing columns"

\* lines 1339-1343: the exception raised, if any.  The condition is
\* (not isinstance(columns, list)) and all(isinstance(s, str) for s in
\* columns); all() iterates columns only when the first operand is true.
CheckColumnsParameter(columns) ==
    IF columns.kind = "None" THEN NoError
    ELSE IF columns.kind = "list" THEN NoError
    ELSE IF columns.kind = "int" THEN "TypeError"
    ELSE IF \A k \in 1..Len(columns.elems) : columns.elems[k].str THEN ColumnsError
    ELSE NoError

\* _check_columns(z, selected_columns), lines 1475-1481: whether it raises
_check_columns(z, selected_columns) ==
    SeqToSet(selected_columns) \ SeqToSet(z.columns) # {}

\* the loop of lines 1356-1359 from the k-th selected column on
RECURSIVE FitLoop(_, _, _, _)
FitLoop(x, columns_, k, st) ==
    IF k > Len(columns_) THEN st
    ELSE LET colname     == columns_[k]
             transformer == [blueprint |-> "transformer", index |-> k,
                             cloned |-> TRUE]
             others      == DOMAIN st.transformers_ \ {colname}
         IN  FitLoop(x, columns_, k + 1,
                     [transformers_ |->
                         [c \in others \cup {colname} |->
                             IF c = colname THEN transformer
                             ELSE st.transformers_[c]],
                      log |-> Append(st.log, Called(transformer, "fit",
                                                    x.data[colname]))])

Unfitted == [columns_ |-> <<>>, transformers_ |-> <<>>, log |-> <<>>]

\* _fit, lines 1322-1360
ColumnwiseTransformer_fit(columns, x) ==
    LET raised   == CheckColumnsParameter(columns)
        columns_ == IF columns.kind = "None" THEN x.columns ELSE columns.elems
    IN  IF raised # NoError THEN [error |-> raised] @@ Unfitted
        ELSE IF _check_columns(x, columns_)
        THEN [error |-> MissingError] @@ [Unfitted EXCEPT !.columns_ = columns_]
        ELSE [error |-> NoError, columns_ |-> columns_] @@
             FitLoop(x, columns_, 1, [transformers_ |-> <<>>, log |-> <<>>])

\* a faulty variant: the loop works on the caller's frame
copyNot(heap, ref) == [heap |-> heap, ref |-> ref]

\* X = X.copy(), line 1383: a new frame object with the same contents
copy(heap, ref) == [heap |-> [heap EXCEPT !.copy = heap[ref]], ref |-> "copy"]

\* the loop of lines 1387-1388 from the k-th selected column on, on the
\* frame object ref
RECURSIVE ColumnwiseTransformLoop(_, _, _, _, _)
ColumnwiseTransformLoop(columns_, transformers_, ref, k, st) ==
    IF k > Len(columns_) THEN st
    ELSE LET colname == columns_[k]
             est     == transformers_[colname]
             column  == st.heap[ref].data[colname]
         IN  ColumnwiseTransformLoop(columns_, transformers_, ref, k + 1,
                [heap |-> [st.heap EXCEPT ![ref].data[colname] =
                                             Returned(est, "transform", column)],
                 log  |-> Append(st.log, Called(est, "transform", column))])

\* _transform, lines 1362-1389, called with the caller's frame z: the
\* exception raised, the frame returned, the caller's frame afterwards and
\* the calls made
ColumnwiseTransformer_transform(columns_, transformers_, z) ==
    LET copied == copy([caller |-> z, copy |-> None], "caller")
    IN  IF _check_columns(copied.heap[copied.ref], columns_)
        THEN [error |-> MissingError, Xt |-> None, caller |-> copied.heap.caller,
              log |-> <<>>]
        ELSE LET st == ColumnwiseTransformLoop(columns_, transformers_, copied.ref, 1,
                                               [heap |-> copied.heap, log |-> <<>>])
             IN  [error |-> NoError, Xt |-> st.heap[copied.ref],
                  caller |-> st.heap.caller, log |-> st.log]

\* SpecColumnwise: _fit on a frame, then _transform on a frame.
ColumnwiseInit ==
    /\ NoTransform
    /\ fp = ExactFp
    /\ pc = "columnwise_new"
    /\ ret = None
    /\ \E columns \in ColumnsValues, x \in Frames("X") :
          call = [columns |-> columns, X |-> x, Z |-> None]

ColumnwiseFit ==
    /\ pc = "columnwise_new"
    /\ LET fitted == ColumnwiseTransformer_fit(call.columns, call.X)
       IN  /\ ret' = [fitted |-> fitted, transformed |-> None]
           /\ pc' = IF fitted.error = NoError THEN "columnwise_fitted"
                    ELSE "columnwise_fit_failed"
    /\ UNCHANGED <<transformVars, call, fp, history>>

ColumnwiseTransform ==
    /\ pc = "columnwise_fitted"
    /\ \E z \in Frames("Z") :
          /\ call' = [call EXCEPT !.Z = z]
          /\ ret' = [ret EXCEPT !.transformed =
                        ColumnwiseTransformer_transform(ret.fitted.columns_,
                                                        ret.fitted.transformers_, z)]
    /\ pc' = "columnwise_transformed"
    /\ UNCHANGED <<transformVars, fp, history>>

ColumnwiseNext == ColumnwiseFit \/ ColumnwiseTransform

SpecColumnwise == ColumnwiseInit /\ [][ColumnwiseNext]_vars

Occurrences(seq, c) == Cardinality({k \in 1..Len(seq) : seq[k] = c})

\* C27: transform returns a frame with the columns of the input in which
\* every selected column is the output of that column's own fitted
\* transformer (applied to the input column when the column is selected
\* once) and every other column is the input column; the caller's frame is
\* not modified; when a selected column is absent from the input,
\* ValueError is raised before any column is transformed.
C27_ColumnwiseTransform ==
    pc = "columnwise_transformed" =>
        LET z        == call.Z
            fitted   == ret.fitted
            out      == ret.transformed
            selected == SeqToSet(fitted.columns_)
        IN  /\ out.caller = z
            /\ IF selected \subseteq SeqToSet(z.columns)
               THEN /\ out.error = NoError
                    /\ out.Xt.columns = z.columns
                    /\ DOMAIN out.Xt.data = DOMAIN z.data
                    /\ \A c \in SeqToSet(z.columns) \ selected :
                          out.Xt.data[c] = z.data[c]
                    /\ \A c \in selected :
                          LET est == fitted.transformers_[c]
                          IN  /\ \E j \in 1..Len(fitted.log) :
                                    fitted.log[j] = Called(est, "fit", call.X.data[c])
                              /\ \E j \in 1..Len(out.log) :
                                    /\ out.log[j].est = est
                                    /\ out.Xt.data[c] =
                                          Returned(est, "transform", out.log[j].X)
                              /\ Occurrences(fitted.columns_, c) = 1 =>
                                    out.Xt.data[c] = Returned(est, "transform", z.data[c])
               ELSE /\ out.error = MissingError
                    /\ out.log = <<>>
                    /\ out.Xt = None

\* one of two columns is selected and transformed, the other passed on
C27_Witness ==
    /\ pc = "columnwise_transformed"
    /\ call.columns = [kind |-> "list", elems |-> <<Str("b")>>]
    /\ call.Z.columns = <<Str("a"), Str("b")>>
    /\ ret.transformed.error = NoError
    /\ ret.transformed.Xt.data[Str("a")] = call.Z.data[Str("a")]
    /\ Len(ret.transformed.Xt.data[Str("b")].applied) = 1

\* a selected column is absent from the frame to transform
C27_WitnessMissing ==
    /\ pc = "columnwise_transformed"
    /\ call.columns.kind = "None"
    /\ call.X.columns = <<Str("a"), Str("b")>>
    /\ call.Z.columns = <<Str("a")>>
    /\ ret.transformed.error = MissingError

\* C28: _fit raises ValueError("Columns need to be a list of strings or
\* None.") whenever columns is not None and is not a list whose elements
\* are all strings, and it raises before any per-column transformer is
\* cloned or fitted.
C28_RejectsBadColumns ==
    pc \in {"columnwise_fitted", "columnwise_fit_failed"} =>
        LET columns == call.columns
            good    == \/ columns.kind = "None"
                       \/ /\ columns.kind = "list"
                          /\ \A k \in 1..Len(columns.elems) : columns.elems[k].str
        IN  ~good => /\ ret.fitted.error = ColumnsError
                     /\ ret.fitted.log = <<>>
                     /\ ret.fitted.transformers_ = <<>>

----------------------------------------------------------------------------
(* The recurrence of _remove_repeating_words (SpecRepeat) *)

\* C29: for every row and column j, output[j] is 0 if input[j] equals
\* output[j-1] (output[-1] taken as 0) and input[j] otherwise: the
\* comparison is against the already rewritten predecessor, an entry is
\* never changed to a value other than 0, and an entry that is 0 in the
\* input stays 0.
C29_RewrittenPredecessor ==
    pc = "repeat_done" =>
        /\ DOMAIN ret = DOMAIN call.original
        /\ \A r \in DOMAIN ret :
              /\ DOMAIN ret[r] = DOMAIN call.original[r]
              /\ \A j \in DOMAIN ret[r] :
                    LET input == call.original[r][j]
                        before == IF j = 1 THEN Word(0) ELSE ret[r][j - 1]
                    IN  /\ ret[r][j] = (IF input = before THEN Word(0) ELSE input)
                        /\ ret[r][j] \in {input, Word(0)}
                        /\ input = Word(0) => ret[r][j] = Word(0)

\* the third of three equal words is compared with the rewritten second
C29_Witness ==
    /\ pc = "repeat_done"
    /\ call.original = <<<<Word(1), Word(1), Word(1)>>>>
    /\ ret = <<<<Word(1), Word(0), Word(1)>>>>

----------------------------------------------------------------------------
(* The total of a window under PAA (SpecPAA) *)

\* C30: for 1 <= word_length <= window_size, in exact arithmetic, the sum of
\* the word_length segment values times frame_length = window_size /
\* word_length is the sum of the window's samples (with segment k equal to
\* num_k / window_size: the num_k add up to word_length times the sum of the
\* samples); a sample's weights over the segments add up to 1 and a
\* segment's weights over the samples add up to frame_length.
C30_TotalConserved ==
    PaaCase =>
        LET W == Len(call.X[1])
            L == call.num_intervals
        IN  /\ \A r \in DOMAIN ret :
                  /\ \A k \in 1..L : ret[r].data[k].rad = W * W /\ ~ret[r].data[k].nan
                  /\ SumSeq([k \in 1..L |-> ret[r].data[k].num]) = L * SumSeq(call.X[r])
            /\ \A n \in 0..(W - 1) :
                  SumSeq([k \in 1..L |-> Overlap(n, k - 1, W, L)]) = L
            /\ \A k \in 0..(L - 1) :
                  SumSeq([n \in 1..W |-> Overlap(n - 1, k, W, L)]) = W

\* a sample shared by the two segments of a window of three
C30_Witness ==
    /\ PaaCase
    /\ call.num_intervals = 2
    /\ call.X[1] = <<-1, 2, 2>>
    /\ ret[1].data = <<Real(0, 9), Real(6, 9)>>

====
